---- MODULE Spec2Model ----
(***************************************************************************)
(* Model of the greenhouse sensor data canister                            *)
(* (greenhouse-sensor-data-manager-backend/src/lib.rs).                    *)
(*                                                                         *)
(* Durable state: two virtual stable memories handed out by                *)
(* MEMORY_MANAGER, memory 0 backing the ID_COUNTER cell and memory 1       *)
(* backing the STORAGE B-tree map.  Volatile state: the value the Cell     *)
(* caches on the heap.  The four canister methods run one at a time, each  *)
(* to completion; a panic inside a method traps the call and the host      *)
(* discards every write of that call.                                      *)
(***************************************************************************)
EXTENDS Integers, Sequences, FiniteSets, TLC

VARIABLES
    memory,       \* MEMORY_MANAGER: MemoryId -> contents of that stable memory
    ID_COUNTER,   \* the value cached on the heap by the IdCell
    now,          \* what ic_cdk::api::time() returns
    last,         \* the most recent call: method, id (argument, or id issued), kind of result, message
    issued,       \* ids returned by successful add_sensor_data calls, in call order
    deleted,      \* ids removed by successful delete_sensor_data calls
    born,         \* for ids in the map: time of the add, and its payload until the first update
    input,        \* the payload handed to the validator when it is exercised alone
    flight        \* the add_sensor_data calls in progress, when a call is followed step by step

vars == <<memory, ID_COUNTER, now, last, issued, deleted, born, input, flight>>

-----------------------------------------------------------------------------
(* Bounds of the model *)

\* add_sensor_data is explored while the counter is below this value
MaxCounter == 2
\* the host clock runs from 0 to this value
MaxTime == 1
\* width of the counter in bits (u64 in the source)
CounterBits == 3
\* length in bytes of the over-long device_id
LongLen == 1000

-----------------------------------------------------------------------------
(* Program constants *)

\* BoundedStorable::MAX_SIZE
MAX_SIZE == 1024
\* default value handed to IdCell::init
COUNTER_DEFAULT == 0
\* MemoryId of the counter cell and of the map
COUNTER_MEMORY == 0
STORAGE_MEMORY == 1

-----------------------------------------------------------------------------
(* f64: finite values (integer valued here), the two infinities and NaN *)

Num(n) == [k |-> "num", v |-> n]
NaN == [k |-> "nan", v |-> 0]
PosInf == [k |-> "inf", v |-> 1]
NegInf == [k |-> "inf", v |-> -1]

IsNaN(x) == x.k = "nan"

\* IEEE 754 `<` : false whenever an operand is NaN
FloatLt(a, b) ==
    /\ ~IsNaN(a)
    /\ ~IsNaN(b)
    /\ \/ a.k = "num" /\ b.k = "num" /\ a.v < b.v
       \/ a.k = "num" /\ b = PosInf
       \/ a = NegInf /\ b.k = "num"
       \/ a = NegInf /\ b = PosInf

\* IEEE 754 `>`
FloatGt(a, b) == FloatLt(b, a)

\* IEEE 754 `<=` : false whenever an operand is NaN
FloatLe(a, b) ==
    /\ ~IsNaN(a)
    /\ ~IsNaN(b)
    /\ (a = b \/ FloatLt(a, b))

\* RangeInclusive<f64>::contains : start <= x && x <= end
RangeContains(lo, hi, x) == FloatLe(lo, x) /\ FloatLe(x, hi)

-----------------------------------------------------------------------------
(* String: a sequence of runs, each a character and how often it repeats *)

Run(c, n) == [c |-> c, n |-> n]

WhiteSpace == {" ", "\t", "\n"}

\* str::len, in bytes (every character here is one byte)
RECURSIVE StrLen(_)
StrLen(s) == IF s = <<>> THEN 0 ELSE Head(s).n + StrLen(Tail(s))

RECURSIVE TrimStart(_)
TrimStart(s) ==
    IF s = <<>> THEN <<>>
    ELSE IF Head(s).c \in WhiteSpace THEN TrimStart(Tail(s))
    ELSE s

RECURSIVE TrimEnd(_)
TrimEnd(s) ==
    IF s = <<>> THEN <<>>
    ELSE IF s[Len(s)].c \in WhiteSpace THEN TrimEnd(SubSeq(s, 1, Len(s) - 1))
    ELSE s

\* str::trim
Trim(s) == TrimEnd(TrimStart(s))

\* str::is_empty
IsEmpty(s) == StrLen(s) = 0

-----------------------------------------------------------------------------
(* Results of the canister methods *)

Ok(data) == [kind |-> "Ok", msg |-> "", data |-> <<data>>]
OkUnit == [kind |-> "Ok", msg |-> "", data |-> <<>>]
InvalidInput(m) == [kind |-> "InvalidInput", msg |-> m, data |-> <<>>]
NotFound(m) == [kind |-> "NotFound", msg |-> m, data |-> <<>>]
\* a panic: the call is rejected and its writes are discarded by the host
Trap(m) == [kind |-> "Trap", msg |-> m, data |-> <<>>]
NoResult == [kind |-> "None", msg |-> "", data |-> <<>>]

-----------------------------------------------------------------------------
(* Validation *)

\* validate_sensor_data_payload: the four checks in source order
validate_sensor_data_payload(payload) ==
    IF IsEmpty(Trim(payload.device_id))
    THEN InvalidInput("Device ID cannot be empty")
    ELSE IF ~RangeContains(Num(0), Num(100), payload.humidity)
    THEN InvalidInput("Humidity must be between 0 and 100")
    ELSE IF FloatLt(payload.temperature, Num(-50)) \/ FloatGt(payload.temperature, Num(60))
    THEN InvalidInput("Temperature must be between -50 and 60 degrees")
    ELSE IF ~RangeContains(Num(0), Num(100), payload.soil_moisture)
    THEN InvalidInput("Soil moisture must be between 0 and 100")
    ELSE OkUnit

-----------------------------------------------------------------------------
(* Storable for SensorData: the Candid encoding of the record *)

\* "DIDL", the type table (an opt nat64 entry and a record entry of seven
\* fields keyed by field-name hash) and the argument type list
CANDID_HEADER_LEN == 51
\* a nat64 or a float64 value
WORD_LEN == 8

\* length of the unsigned LEB128 encoding of n
RECURSIVE Leb128Len(_)
Leb128Len(n) == IF n < 128 THEN 1 ELSE 1 + Leb128Len(n \div 128)

\* Encode!: the field values in the order of their field-name hashes
to_bytes(data) ==
    <<data.id, data.updated_at, data.temperature, data.device_id,
      data.humidity, data.timestamp, data.soil_moisture>>

\* Decode!
from_bytes(bytes) ==
    [id |-> bytes[1],
     device_id |-> bytes[4],
     temperature |-> bytes[3],
     humidity |-> bytes[5],
     soil_moisture |-> bytes[7],
     timestamp |-> bytes[6],
     updated_at |-> bytes[2]]

\* number of bytes of the encoding
BytesLen(bytes) ==
    CANDID_HEADER_LEN
    + WORD_LEN
    + 1 + WORD_LEN * Len(bytes[2])
    + WORD_LEN
    + Leb128Len(StrLen(bytes[4])) + StrLen(bytes[4])
    + WORD_LEN + WORD_LEN + WORD_LEN

-----------------------------------------------------------------------------
(* ic_stable_structures::Cell over a stable memory *)

\* a stable memory is <<>> while nothing was ever written to it

\* fault variant of CellInit: Cell::new, which overwrites what the memory holds
CellInitMutReset(mem, default) == [memory |-> <<default>>, value |-> default]

\* Cell::init: load the stored value, or store the default into a fresh memory
CellInit(mem, default) ==
    IF mem = <<>>
    THEN [memory |-> <<default>>, value |-> default]
    ELSE [memory |-> mem, value |-> mem[1]]

\* Cell::get
CellGet(value) == value

\* fault variant of CellSet: hands back the value just stored
CellSetMutReturnsNew(value, new) == [memory |-> <<new>>, value |-> new, old |-> new]

\* Cell::set: store the new value, hand back the previous one
CellSet(value, new) == [memory |-> <<new>>, value |-> new, old |-> value]

CounterModulus == 2 ^ CounterBits

\* fault variant of NextValue: the increment is lost
NextValueMutNoIncrement(current_value) == current_value

\* current_value + 1 on the counter's unsigned type
NextValue(current_value) == (current_value + 1) % CounterModulus

-----------------------------------------------------------------------------
(* ic_stable_structures::StableBTreeMap<u64, SensorData> over a stable memory *)

EmptyMap == [k \in {} |-> <<>>]

\* StableBTreeMap::init: load the map of the memory, or create one in a fresh memory
BTreeInit(mem) == IF mem = <<>> THEN <<EmptyMap>> ELSE mem

\* the key/value entries of the map
Entries(mem) == mem[1]

\* fault variant of BTreeGet: a default record stands in for a missing key
BTreeGetMutDefault(mem, key) ==
    IF key \in DOMAIN Entries(mem)
    THEN <<from_bytes(Entries(mem)[key])>>
    ELSE <<from_bytes(<<key, <<>>, Num(0), <<>>, Num(0), 0, Num(0)>>)>>

\* StableBTreeMap::get
BTreeGet(mem, key) ==
    IF key \in DOMAIN Entries(mem)
    THEN <<from_bytes(Entries(mem)[key])>>
    ELSE <<>>

\* StableBTreeMap::insert panics on a value longer than MAX_SIZE
InsertFits(value) == BytesLen(to_bytes(value)) <= MAX_SIZE

\* StableBTreeMap::insert
BTreeInsert(mem, key, value) ==
    <<[k \in DOMAIN Entries(mem) \cup {key} |->
          IF k = key THEN to_bytes(value) ELSE Entries(mem)[k]]>>

\* fault variant of BTreeRemove: reads the entry and leaves it in the map
BTreeRemoveMutKeeps(mem, key) ==
    [memory |-> mem, removed |-> BTreeGet(mem, key)]

\* fault variant of BTreeRemove: the whole map is dropped with the entry
BTreeRemoveMutClears(mem, key) ==
    [memory |-> <<EmptyMap>>, removed |-> BTreeGet(mem, key)]

\* StableBTreeMap::remove
BTreeRemove(mem, key) ==
    [memory |-> <<[k \in DOMAIN Entries(mem) \ {key} |-> Entries(mem)[k]]>>,
     removed |-> BTreeGet(mem, key)]

\* the STORAGE map as the methods see it: id -> SensorData
STORAGE == [k \in DOMAIN Entries(memory[STORAGE_MEMORY]) |->
               from_bytes(Entries(memory[STORAGE_MEMORY])[k])]

-----------------------------------------------------------------------------
(* Inputs *)

\* the over-long device_id: LongLen bytes, none of them white space
LongDeviceId == <<Run("x", LongLen)>>

DevA == <<Run("a", 1)>>
DevB == <<Run(" ", 1), Run("b", 1), Run("\t", 1)>>
DevEmpty == <<>>
DevBlank == <<Run(" ", 2), Run("\n", 1)>>

Payload(d, t, h, s) ==
    [device_id |-> d, temperature |-> t, humidity |-> h, soil_moisture |-> s]

\* the payloads the canister methods are called with
Payloads ==
    { Payload(DevA, Num(-50), Num(0), Num(100)),
      Payload(DevB, NaN, Num(100), Num(0)),
      Payload(DevBlank, Num(61), Num(101), Num(50)),
      Payload(LongDeviceId, Num(20), Num(50), Num(50)) }

\* the ids the canister methods are called with: MaxCounter is never issued
Ids == 0..MaxCounter

-----------------------------------------------------------------------------
(* Construction of records *)

\* fault variant of NewSensorData: updated_at set at creation
NewSensorDataMutStamped(id, payload, t) ==
    [id |-> id,
     device_id |-> payload.device_id,
     temperature |-> payload.temperature,
     humidity |-> payload.humidity,
     soil_moisture |-> payload.soil_moisture,
     timestamp |-> t,
     updated_at |-> <<t>>]

\* the SensorData literal of add_sensor_data
NewSensorData(id, payload, t) ==
    [id |-> id,
     device_id |-> payload.device_id,
     temperature |-> payload.temperature,
     humidity |-> payload.humidity,
     soil_moisture |-> payload.soil_moisture,
     timestamp |-> t,
     updated_at |-> <<>>]

\* fault variant of UpdatedSensorData: the creation timestamp is overwritten
UpdatedSensorDataMutRestamps(data, payload, t) ==
    [data EXCEPT !.device_id = payload.device_id,
                 !.temperature = payload.temperature,
                 !.humidity = payload.humidity,
                 !.soil_moisture = payload.soil_moisture,
                 !.timestamp = t,
                 !.updated_at = <<t>>]

\* fault variant of UpdatedSensorData: updated_at is not set
UpdatedSensorDataMutNoStamp(data, payload, t) ==
    [data EXCEPT !.device_id = payload.device_id,
                 !.temperature = payload.temperature,
                 !.humidity = payload.humidity,
                 !.soil_moisture = payload.soil_moisture]

\* the field assignments of update_sensor_data
UpdatedSensorData(data, payload, t) ==
    [data EXCEPT !.device_id = payload.device_id,
                 !.temperature = payload.temperature,
                 !.humidity = payload.humidity,
                 !.soil_moisture = payload.soil_moisture,
                 !.updated_at = <<t>>]

-----------------------------------------------------------------------------
(* State *)

Call(op, id, result) == [op |-> op, id |-> id, kind |-> result.kind, msg |-> result.msg]

NoBirths == [k \in {} |-> <<>>]

\* thread_local initialisers over fresh stable memories
Fresh ==
    /\ memory = [m \in {COUNTER_MEMORY, STORAGE_MEMORY} |->
                    IF m = COUNTER_MEMORY
                    THEN CellInit(<<>>, COUNTER_DEFAULT).memory
                    ELSE BTreeInit(<<>>)]
    /\ ID_COUNTER = CellInit(<<>>, COUNTER_DEFAULT).value
    /\ now = 0
    /\ last = Call("init", <<>>, NoResult)
    /\ issued = <<>>
    /\ deleted = {}
    /\ born = NoBirths
    /\ flight = <<>>

Init == Fresh /\ input = <<>>

-----------------------------------------------------------------------------
(* Canister methods: what a call returns and what it leaves in the stable   *)
(* memories and in the cell, from the state it is admitted in               *)

Outcome(result, mem, counter) == [result |-> result, memory |-> mem, counter |-> counter]

\* the call returns without having written, or traps and its writes are discarded
Unchanged(result) == Outcome(result, memory, ID_COUNTER)

\* fault variant of add_sensor_data: the id is drawn before the payload is validated
add_sensor_dataMutCountsFirst(payload) ==
    LET checked == validate_sensor_data_payload(payload)
        current_value == CellGet(ID_COUNTER)
        set == CellSet(ID_COUNTER, NextValue(current_value))
        id == set.old
        data == NewSensorData(id, payload, now)
    IN  IF checked.kind # "Ok"
        THEN Outcome(checked, [memory EXCEPT ![COUNTER_MEMORY] = set.memory], set.value)
        ELSE IF ~InsertFits(data) THEN Unchanged(Trap("Value is too large"))
        ELSE Outcome(Ok(data),
                     [memory EXCEPT
                        ![COUNTER_MEMORY] = set.memory,
                        ![STORAGE_MEMORY] = BTreeInsert(memory[STORAGE_MEMORY], data.id, data)],
                     set.value)

add_sensor_data(payload) ==
    LET checked == validate_sensor_data_payload(payload)
        current_value == CellGet(ID_COUNTER)
        set == CellSet(ID_COUNTER, NextValue(current_value))
        id == set.old
        data == NewSensorData(id, payload, now)
    IN  IF checked.kind # "Ok" THEN Unchanged(checked)
        ELSE IF ~InsertFits(data) THEN Unchanged(Trap("Value is too large"))
        ELSE Outcome(Ok(data),
                     [memory EXCEPT
                        ![COUNTER_MEMORY] = set.memory,
                        ![STORAGE_MEMORY] = BTreeInsert(memory[STORAGE_MEMORY], data.id, data)],
                     set.value)

\* _get_sensor_data
GetInternal(id) == BTreeGet(memory[STORAGE_MEMORY], id)

get_sensor_data(id) ==
    LET found == GetInternal(id)
    IN  IF found # <<>>
        THEN Unchanged(Ok(found[1]))
        ELSE Unchanged(NotFound("Sensor data with id={} not found"))

\* fault variant of update_sensor_data: the lookup comes before the validation
update_sensor_dataMutLookupFirst(id, payload) ==
    LET checked == validate_sensor_data_payload(payload)
        found == BTreeGet(memory[STORAGE_MEMORY], id)
        data == UpdatedSensorData(found[1], payload, now)
    IN  IF found = <<>>
        THEN Unchanged(NotFound("Couldn't update sensor data with id={}. Data not found"))
        ELSE IF checked.kind # "Ok" THEN Unchanged(checked)
        ELSE IF ~InsertFits(data) THEN Unchanged(Trap("Value is too large"))
        ELSE Outcome(Ok(data),
                     [memory EXCEPT
                        ![STORAGE_MEMORY] = BTreeInsert(memory[STORAGE_MEMORY], data.id, data)],
                     ID_COUNTER)

update_sensor_data(id, payload) ==
    LET checked == validate_sensor_data_payload(payload)
        found == BTreeGet(memory[STORAGE_MEMORY], id)
        data == UpdatedSensorData(found[1], payload, now)
    IN  IF checked.kind # "Ok" THEN Unchanged(checked)
        ELSE IF found = <<>>
        THEN Unchanged(NotFound("Couldn't update sensor data with id={}. Data not found"))
        ELSE IF ~InsertFits(data) THEN Unchanged(Trap("Value is too large"))
        ELSE Outcome(Ok(data),
                     [memory EXCEPT
                        ![STORAGE_MEMORY] = BTreeInsert(memory[STORAGE_MEMORY], data.id, data)],
                     ID_COUNTER)

delete_sensor_data(id) ==
    LET removal == BTreeRemove(memory[STORAGE_MEMORY], id)
    IN  IF removal.removed # <<>>
        THEN Outcome(Ok(removal.removed[1]),
                     [memory EXCEPT ![STORAGE_MEMORY] = removal.memory],
                     ID_COUNTER)
        ELSE Unchanged(NotFound("Couldn't delete sensor data with id={}. Data not found."))

-----------------------------------------------------------------------------
(* Calls *)

\* a call of add_sensor_data, whatever the counter holds
AddAdmitted(payload) ==
    \E out \in {add_sensor_data(payload)} :
        LET ok == out.result.kind = "Ok"
            id == out.result.data[1].id
        IN  /\ memory' = out.memory
            /\ ID_COUNTER' = out.counter
            /\ last' = Call("add", IF ok THEN <<id>> ELSE <<>>, out.result)
            /\ issued' = IF ok THEN Append(issued, id) ELSE issued
            /\ born' = IF ok
                       THEN [k \in DOMAIN born \cup {id} |->
                                IF k = id
                                THEN [payload |-> <<payload>>, at |-> now]
                                ELSE born[k]]
                       ELSE born
            /\ UNCHANGED <<now, deleted, input, flight>>

Add(payload) == ID_COUNTER < MaxCounter /\ AddAdmitted(payload)

Get(id) ==
    \E out \in {get_sensor_data(id)} :
        /\ memory' = out.memory
        /\ ID_COUNTER' = out.counter
        /\ last' = Call("get", <<id>>, out.result)
        /\ UNCHANGED <<now, issued, deleted, born, input, flight>>

Update(id, payload) ==
    \E out \in {update_sensor_data(id, payload)} :
        LET ok == out.result.kind = "Ok"
        IN  /\ memory' = out.memory
            /\ ID_COUNTER' = out.counter
            /\ last' = Call("update", <<id>>, out.result)
            /\ born' = IF ok
                       THEN [k \in DOMAIN born |->
                                IF k = id THEN [born[k] EXCEPT !.payload = <<>>] ELSE born[k]]
                       ELSE born
            /\ UNCHANGED <<now, issued, deleted, input, flight>>

Delete(id) ==
    \E out \in {delete_sensor_data(id)} :
        LET ok == out.result.kind = "Ok"
        IN  /\ memory' = out.memory
            /\ ID_COUNTER' = out.counter
            /\ last' = Call("delete", <<id>>, out.result)
            /\ deleted' = IF ok THEN deleted \cup {id} ELSE deleted
            /\ born' = IF ok THEN [k \in DOMAIN born \ {id} |-> born[k]] ELSE born
            /\ UNCHANGED <<now, issued, input, flight>>

-----------------------------------------------------------------------------
(* Environment *)

\* The process starts again over the same stable memories: the heap is lost
\* and the thread_local initialisers run again.
Restart ==
    /\ memory' = [memory EXCEPT
            ![COUNTER_MEMORY] = CellInit(memory[COUNTER_MEMORY], COUNTER_DEFAULT).memory,
            ![STORAGE_MEMORY] = BTreeInit(memory[STORAGE_MEMORY])]
    /\ ID_COUNTER' = CellInit(memory[COUNTER_MEMORY], COUNTER_DEFAULT).value
    /\ last' = Call("restart", <<>>, NoResult)
    /\ UNCHANGED <<now, issued, deleted, born, input, flight>>

\* The host clock advances; it never goes backwards.
Tick ==
    /\ now < MaxTime
    /\ now' = now + 1
    /\ last' = Call("tick", <<>>, NoResult)
    /\ UNCHANGED <<memory, ID_COUNTER, issued, deleted, born, input, flight>>

AddCall == \E payload \in Payloads : Add(payload)
GetCall == \E id \in Ids : Get(id)
UpdateCall == \E id \in Ids, payload \in Payloads : Update(id, payload)
DeleteCall == \E id \in Ids : Delete(id)

Next == AddCall \/ GetCall \/ UpdateCall \/ DeleteCall \/ Restart \/ Tick

Spec == Init /\ [][Next]_vars

-----------------------------------------------------------------------------
(* The counter driven to the end of its range: adds and deletes only, one   *)
(* payload, no cap on the counter                                           *)

\* adds explored once the counter has gone through its whole range
WrapExtra == 2

WrapPayloads == { Payload(DevA, Num(-50), Num(0), Num(100)) }

WrapIds == 0..(CounterModulus - 1)

AddWrap ==
    \E payload \in WrapPayloads :
        Len(issued) < CounterModulus + WrapExtra /\ AddAdmitted(payload)

\* current_value + 1 in a build with overflow checks: the add panics at the
\* largest counter value and the call is discarded
AddOverflowChecked ==
    \E payload \in WrapPayloads :
        /\ validate_sensor_data_payload(payload).kind = "Ok"
        /\ CellGet(ID_COUNTER) + 1 >= CounterModulus
        /\ last' = Call("add", <<>>, Trap("attempt to add with overflow"))
        /\ UNCHANGED <<memory, ID_COUNTER, now, issued, deleted, born, input, flight>>

DeleteWrap == \E id \in WrapIds : Delete(id)

NextWrap == AddWrap \/ AddOverflowChecked \/ DeleteWrap

SpecWrap == Init /\ [][NextWrap]_vars

-----------------------------------------------------------------------------
(* add_sensor_data followed step by step. The method is a synchronous       *)
(* update method: the host admits a call only when no other call is in      *)
(* progress, and a call that traps is discarded with all its writes.        *)

\* fault variant of Admissible: a call is admitted while another is in progress
AdmissibleMutInterleaves == Len(flight) <= 1

\* the host admits a call: no call is in progress
Admissible == flight = <<>>

\* a call in progress: where it stands, its locals, and the state to go back to on a trap
Frame(payload) ==
    [pc |-> "read", payload |-> payload, current_value |-> <<>>, id |-> <<>>,
     saved |-> [memory |-> memory, counter |-> ID_COUNTER]]

Without(s, i) == [k \in 1..(Len(s) - 1) |-> IF k < i THEN s[k] ELSE s[k + 1]]

\* the call is admitted and the payload validated; an invalid payload returns at once
AddBegin(payload) ==
    /\ Admissible
    /\ ID_COUNTER < MaxCounter
    /\ \E checked \in {validate_sensor_data_payload(payload)} :
          IF checked.kind # "Ok"
          THEN /\ last' = Call("add", <<>>, checked)
               /\ UNCHANGED flight
          ELSE /\ flight' = Append(flight, Frame(payload))
               /\ UNCHANGED last
    /\ UNCHANGED <<memory, ID_COUNTER, now, issued, deleted, born, input>>

\* let current_value = *counter.borrow().get()
AddRead(i) ==
    /\ flight[i].pc = "read"
    /\ flight' = [flight EXCEPT ![i].pc = "set",
                                ![i].current_value = <<CellGet(ID_COUNTER)>>]
    /\ UNCHANGED <<memory, ID_COUNTER, now, last, issued, deleted, born, input>>

\* counter.borrow_mut().set(current_value + 1): the id is the value the cell held
AddSet(i) ==
    /\ flight[i].pc = "set"
    /\ \E set \in {CellSet(ID_COUNTER, NextValue(flight[i].current_value[1]))} :
          /\ memory' = [memory EXCEPT ![COUNTER_MEMORY] = set.memory]
          /\ ID_COUNTER' = set.value
          /\ flight' = [flight EXCEPT ![i].pc = "insert", ![i].id = <<set.old>>]
    /\ UNCHANGED <<now, last, issued, deleted, born, input>>

\* the record is built and inserted and the call returns; an insert that
\* panics discards the call
AddInsert(i) ==
    /\ flight[i].pc = "insert"
    /\ \E data \in {NewSensorData(flight[i].id[1], flight[i].payload, now)} :
          IF ~InsertFits(data)
          THEN /\ memory' = flight[i].saved.memory
               /\ ID_COUNTER' = flight[i].saved.counter
               /\ last' = Call("add", <<>>, Trap("Value is too large"))
               /\ UNCHANGED <<issued, born>>
          ELSE /\ memory' = [memory EXCEPT
                      ![STORAGE_MEMORY] = BTreeInsert(memory[STORAGE_MEMORY], data.id, data)]
               /\ UNCHANGED ID_COUNTER
               /\ last' = Call("add", <<data.id>>, Ok(data))
               /\ issued' = Append(issued, data.id)
               /\ born' = [k \in DOMAIN born \cup {data.id} |->
                              IF k = data.id
                              THEN [payload |-> <<flight[i].payload>>, at |-> now]
                              ELSE born[k]]
    /\ flight' = Without(flight, i)
    /\ UNCHANGED <<now, deleted, input>>

AddBeginCall == \E payload \in Payloads : AddBegin(payload)
AddReadStep == \E i \in DOMAIN flight : AddRead(i)
AddSetStep == \E i \in DOMAIN flight : AddSet(i)
AddInsertStep == \E i \in DOMAIN flight : AddInsert(i)
GetAdmitted == Admissible /\ GetCall
UpdateAdmitted == Admissible /\ UpdateCall
DeleteAdmitted == Admissible /\ DeleteCall
RestartAdmitted == Admissible /\ Restart
TickAdmitted == Admissible /\ Tick

NextSteps ==
    \/ AddBeginCall \/ AddReadStep \/ AddSetStep \/ AddInsertStep
    \/ GetAdmitted \/ UpdateAdmitted \/ DeleteAdmitted
    \/ RestartAdmitted \/ TickAdmitted

SpecSteps == Init /\ [][NextSteps]_vars

-----------------------------------------------------------------------------
(* The validator exercised alone, over every combination of field values *)

Floats ==
    { NegInf, Num(-51), Num(-50), Num(-1), Num(0), Num(60), Num(61),
      Num(100), Num(101), PosInf, NaN }

DeviceIds == { DevA, DevB, DevEmpty, DevBlank, LongDeviceId }

AllPayloads ==
    { Payload(d, t, h, s) : d \in DeviceIds, t \in Floats, h \in Floats, s \in Floats }

InitValidate == Fresh /\ input \in { <<p>> : p \in AllPayloads }

Validate ==
    /\ last.op = "init"
    /\ last' = Call("validate", <<>>, validate_sensor_data_payload(input[1]))
    /\ UNCHANGED <<memory, ID_COUNTER, now, issued, deleted, born, input, flight>>

NextValidate == Validate

SpecValidate == InitValidate /\ [][NextValidate]_vars

-----------------------------------------------------------------------------
(* Vocabulary of the properties *)

Issued == { issued[i] : i \in DOMAIN issued }

\* x is an ordinary number of the closed interval [lo, hi]
Within(x, lo, hi) == x.k = "num" /\ lo <= x.v /\ x.v <= hi

SameFields(data, payload) ==
    /\ data.device_id = payload.device_id
    /\ data.temperature = payload.temperature
    /\ data.humidity = payload.humidity
    /\ data.soil_moisture = payload.soil_moisture

Accepted(payload) == validate_sensor_data_payload(payload).kind = "Ok"

\* the record map a call leaves behind
StoredAfter(out) ==
    [k \in DOMAIN Entries(out.memory[STORAGE_MEMORY]) |->
        from_bytes(Entries(out.memory[STORAGE_MEMORY])[k])]

LastIs(op, kind) == last.op = op /\ last.kind = kind

-----------------------------------------------------------------------------
(* Properties *)

\* C1: the ids returned by successful add_sensor_data calls are strictly
\* increasing in call order, with no repeats, whatever gets, updates, deletes
\* and rejected adds come in between; an add never returns the id of a
\* deleted record.
C1_IdsStrictlyIncreasing ==
    /\ \A i, j \in DOMAIN issued : i < j => issued[i] < issued[j]
    /\ \A payload \in Payloads :
          \A out \in {add_sensor_data(payload)} :
             out.result.kind = "Ok" =>
                /\ out.result.data[1].id \notin deleted
                /\ \A i \in DOMAIN issued : issued[i] < out.result.data[1].id

\* two ids were issued, the first one was deleted before the second add
C1_Witness ==
    /\ Len(issued) = 2
    /\ issued[1] \in deleted
    /\ LastIs("add", "Ok")
    /\ last.id = <<issued[2]>>

\* C2: the counter is strictly greater than every id ever issued, and no
\* step (add, get, update, delete, restart) makes the counter smaller.
C2_CounterAboveIssued ==
    /\ [](\A i \in DOMAIN issued : issued[i] < ID_COUNTER)
    /\ [][ID_COUNTER' >= ID_COUNTER]_vars

\* a restart after two ids were issued and one of them deleted
C2_Witness ==
    /\ Len(issued) = 2
    /\ deleted # {}
    /\ last.op = "restart"
    /\ ID_COUNTER = 2

\* C3: every stored record has a device_id that is not blank, a temperature
\* within [-50, 60], a humidity within [0, 100] and a soil_moisture within
\* [0, 100], for every value a payload field can hold, NaN and the
\* infinities included.
C3_StoredRecordsInRange ==
    \A stored \in {STORAGE} :
        \A k \in DOMAIN stored :
            /\ ~IsEmpty(Trim(stored[k].device_id))
            /\ Within(stored[k].temperature, -50, 60)
            /\ Within(stored[k].humidity, 0, 100)
            /\ Within(stored[k].soil_moisture, 0, 100)

\* C4: a record that was added and neither updated nor deleted since is
\* returned by get_sensor_data with the payload's fields, its id, the time of
\* the add as creation timestamp and no updated_at; what add_sensor_data
\* returns is the record it stored.
C4_RoundTrip ==
    /\ \A id \in DOMAIN born :
          born[id].payload # <<>> =>
            \A got \in {get_sensor_data(id).result} :
                /\ got.kind = "Ok"
                /\ SameFields(got.data[1], born[id].payload[1])
                /\ got.data[1].id = id
                /\ got.data[1].timestamp = born[id].at
                /\ got.data[1].updated_at = <<>>
    /\ \A payload \in Payloads :
          \A out \in {add_sensor_data(payload)} :
             out.result.kind = "Ok" =>
                \A after \in {StoredAfter(out)} :
                    /\ out.result.data[1].id \in DOMAIN after
                    /\ after[out.result.data[1].id] = out.result.data[1]
                    /\ SameFields(out.result.data[1], payload)
                    /\ out.result.data[1].timestamp = now
                    /\ out.result.data[1].updated_at = <<>>
    /\ LastIs("add", "Ok") =>
          /\ last.id[1] \in DOMAIN born
          /\ born[last.id[1]].payload # <<>>
          /\ born[last.id[1]].at = now

\* a get of the first record, after the clock moved and another record was
\* added and deleted
C4_Witness ==
    /\ LastIs("get", "Ok")
    /\ last.id[1] \in DOMAIN born
    /\ born[last.id[1]].payload # <<>>
    /\ born[last.id[1]].at < now
    /\ deleted # {}

\* C5: a successful update_sensor_data(i, p2) stores and returns a record with
\* p2's fields, updated_at present, and the id and creation timestamp the
\* record had before; id and creation timestamp of a stored record never
\* change.
C5_UpdateSemantics ==
    \A stored \in {STORAGE} :
        /\ \A id \in Ids, payload \in Payloads :
              \A out \in {update_sensor_data(id, payload)} :
                 out.result.kind = "Ok" =>
                    \A after \in {StoredAfter(out)} :
                        /\ id \in DOMAIN stored
                        /\ id \in DOMAIN after
                        /\ after[id] = out.result.data[1]
                        /\ SameFields(out.result.data[1], payload)
                        /\ out.result.data[1].updated_at # <<>>
                        /\ out.result.data[1].id = id
                        /\ out.result.data[1].id = stored[id].id
                        /\ out.result.data[1].timestamp = stored[id].timestamp
        /\ \A id \in DOMAIN stored :
              /\ id \in DOMAIN born
              /\ stored[id].id = id
              /\ stored[id].timestamp = born[id].at
        /\ LastIs("update", "Ok") =>
              /\ last.id[1] \in DOMAIN stored
              /\ stored[last.id[1]].updated_at = <<now>>

\* a record created at time 0 was updated at a later time
C5_Witness ==
    /\ LastIs("update", "Ok")
    /\ STORAGE[last.id[1]].timestamp = 0
    /\ STORAGE[last.id[1]].updated_at = <<now>>
    /\ now > 0

\* C6: with a clock that never goes backwards, updated_at of a stored record
\* is absent until the first successful update, present after every
\* successful update, never below the creation timestamp, and never
\* decreases from one successful update to the next.
C6_UpdatedAtMonotonic ==
    \A stored \in {STORAGE} :
        \A id \in DOMAIN stored :
            /\ id \in DOMAIN born
            /\ (stored[id].updated_at = <<>>) <=> (born[id].payload # <<>>)
            /\ stored[id].updated_at # <<>> =>
                  /\ stored[id].updated_at[1] >= stored[id].timestamp
                  /\ stored[id].updated_at[1] <= now
            /\ \A payload \in Payloads :
                  \A out \in {update_sensor_data(id, payload)} :
                     out.result.kind = "Ok" =>
                        /\ out.result.data[1].updated_at # <<>>
                        /\ out.result.data[1].updated_at[1] >= stored[id].timestamp
                        /\ stored[id].updated_at # <<>> =>
                              out.result.data[1].updated_at[1] >= stored[id].updated_at[1]

\* a record updated after the clock moved, next to one never updated
C6_Witness ==
    /\ LastIs("update", "Ok")
    /\ \E id \in DOMAIN STORAGE :
          STORAGE[id].updated_at # <<>> /\ STORAGE[id].updated_at[1] > STORAGE[id].timestamp
    /\ \E id \in DOMAIN STORAGE : STORAGE[id].updated_at = <<>>

\* C7: a successful delete_sensor_data(i) returns the record stored under i
\* and removes it; from then on get, update with a valid payload and delete
\* of i return NotFound, and i never comes back into the map.
C7_DeletePermanent ==
    \A stored \in {STORAGE} :
        /\ \A id \in DOMAIN stored :
              \A out \in {delete_sensor_data(id)} :
                  /\ out.result = Ok(stored[id])
                  /\ id \notin DOMAIN StoredAfter(out)
        /\ \A id \in deleted :
              /\ id \notin DOMAIN stored
              /\ get_sensor_data(id).result.kind = "NotFound"
              /\ delete_sensor_data(id).result.kind = "NotFound"
              /\ \A payload \in Payloads :
                    Accepted(payload) =>
                        update_sensor_data(id, payload).result.kind = "NotFound"
        /\ (last.op \in {"get", "update"} /\ last.id[1] \in deleted) =>
              last.kind \in {"NotFound", "InvalidInput"}
        /\ LastIs("delete", "Ok") => last.id[1] \in deleted

\* an update of a deleted id, after a later add
C7_Witness ==
    /\ LastIs("update", "NotFound")
    /\ last.id[1] \in deleted
    /\ Len(issued) = 2
    /\ issued[1] \in deleted
    /\ issued[2] \in DOMAIN STORAGE

\* C8: for an id no successful add has issued, get, update with a valid
\* payload and delete return NotFound.
C8_UnknownIdNotFound ==
    /\ \A id \in Ids \ Issued :
          /\ get_sensor_data(id).result.kind = "NotFound"
          /\ delete_sensor_data(id).result.kind = "NotFound"
          /\ \A payload \in Payloads :
                Accepted(payload) =>
                    update_sensor_data(id, payload).result.kind = "NotFound"
    /\ (last.op \in {"get", "delete"} /\ last.id[1] \notin Issued) =>
          last.kind = "NotFound"

\* a delete of an id never issued, while the map holds a record
C8_Witness ==
    /\ LastIs("delete", "NotFound")
    /\ last.id[1] \notin Issued
    /\ DOMAIN STORAGE # {}

\* C9: a restart leaves the counter and the stable memories as they were, so
\* every get_sensor_data returns after it what it returned before, and an add
\* after it returns an id above every id issued before.
C9_RestartPreserves ==
    /\ [][last'.op = "restart" =>
             /\ ID_COUNTER' = ID_COUNTER
             /\ memory' = memory
             /\ \A id \in Ids : get_sensor_data(id)' = get_sensor_data(id)]_vars
    /\ [](last.op = "restart" =>
             \A payload \in Payloads :
                \A out \in {add_sensor_data(payload)} :
                   out.result.kind = "Ok" =>
                      \A i \in DOMAIN issued : issued[i] < out.result.data[1].id)

\* a restart with a record in the map and an id consumed by a deleted record
C9_Witness ==
    /\ last.op = "restart"
    /\ ID_COUNTER = 2
    /\ DOMAIN STORAGE # {}
    /\ deleted # {}

\* the check a payload fails first, in the order device_id, humidity,
\* temperature, soil_moisture
FirstViolation(payload) ==
    IF IsEmpty(Trim(payload.device_id)) THEN "Device ID cannot be empty"
    ELSE IF ~Within(payload.humidity, 0, 100) THEN "Humidity must be between 0 and 100"
    ELSE IF ~Within(payload.temperature, -50, 60)
    THEN "Temperature must be between -50 and 60 degrees"
    ELSE IF ~Within(payload.soil_moisture, 0, 100)
    THEN "Soil moisture must be between 0 and 100"
    ELSE ""

\* C10: the validator accepts a payload exactly when device_id is not blank,
\* humidity is in [0, 100], temperature in [-50, 60] and soil_moisture in
\* [0, 100], bounds included, and otherwise reports the first violated check
\* in the order device_id, humidity, temperature, soil_moisture.
C10_ValidatorExact ==
    last.op = "validate" =>
        /\ (last.kind = "Ok") <=> (FirstViolation(input[1]) = "")
        /\ last.kind \in {"Ok", "InvalidInput"}
        /\ last.msg = FirstViolation(input[1])

\* C11: update_sensor_data validates before it looks the id up: a payload
\* that fails validation gets InvalidInput whether or not the id is in the
\* map, and NotFound is returned only for a payload that passes validation
\* and an id absent from the map.
C11_UpdateErrorPrecedence ==
    \A stored \in {STORAGE} :
        /\ \A id \in Ids, payload \in Payloads :
              \A out \in {update_sensor_data(id, payload)} :
                  /\ ~Accepted(payload) =>
                        out.result = validate_sensor_data_payload(payload)
                  /\ ~Accepted(payload) => out.result.kind = "InvalidInput"
                  /\ (out.result.kind = "NotFound") <=>
                        (Accepted(payload) /\ id \notin DOMAIN stored)
        /\ LastIs("update", "NotFound") => last.id[1] \notin DOMAIN stored

\* an update with a rejected payload on an id that is not in the map, while
\* another id is
C11_Witness ==
    /\ LastIs("update", "InvalidInput")
    /\ last.id[1] \notin DOMAIN STORAGE
    /\ DOMAIN STORAGE # {}

\* C12: a successful add returns the counter value read before the increment
\* and leaves the counter at that id plus 1; the counter starts at 0, so the
\* k-th successful add returns k-1 whatever gets, updates, deletes, restarts
\* and rejected adds happened in between.
C12_CounterContract ==
    /\ \A k \in DOMAIN issued : issued[k] = k - 1
    /\ ID_COUNTER = Len(issued)
    /\ memory[COUNTER_MEMORY] = <<ID_COUNTER>>
    /\ \A payload \in Payloads :
          \A out \in {add_sensor_data(payload)} :
             out.result.kind = "Ok" =>
                /\ out.result.data[1].id = ID_COUNTER
                /\ out.counter = out.result.data[1].id + 1
                /\ out.memory[COUNTER_MEMORY] = <<out.result.data[1].id + 1>>

\* the second successful add, after a delete
C12_Witness ==
    /\ LastIs("add", "Ok")
    /\ last.id = <<1>>
    /\ Len(issued) = 2
    /\ deleted = {0}

\* C13: a call that returns InvalidInput or NotFound leaves the counter and
\* the stable memories as they were; a rejected add consumes no id.
C13_ErrorLeavesState ==
    [][last'.kind \in {"InvalidInput", "NotFound"} =>
          /\ ID_COUNTER' = ID_COUNTER
          /\ memory' = memory]_vars

\* an add rejected with InvalidInput while the map holds a record
C13_Witness ==
    /\ LastIs("add", "InvalidInput")
    /\ ID_COUNTER = 1
    /\ DOMAIN STORAGE # {}

\* C14: get_sensor_data changes neither the counter nor the map; a successful
\* update of i leaves the counter, the set of keys and every other record as
\* they were; a successful delete of i leaves the counter and every other
\* record as they were and removes exactly the key i.
C14_Frame ==
    [][/\ last'.op = "get" => (ID_COUNTER' = ID_COUNTER /\ memory' = memory)
       /\ (last'.op = "update" /\ last'.kind = "Ok") =>
             /\ ID_COUNTER' = ID_COUNTER
             /\ memory'[COUNTER_MEMORY] = memory[COUNTER_MEMORY]
             /\ DOMAIN Entries(memory'[STORAGE_MEMORY]) = DOMAIN Entries(memory[STORAGE_MEMORY])
             /\ \A k \in DOMAIN Entries(memory[STORAGE_MEMORY]) \ {last'.id[1]} :
                   Entries(memory'[STORAGE_MEMORY])[k] = Entries(memory[STORAGE_MEMORY])[k]
       /\ (last'.op = "delete" /\ last'.kind = "Ok") =>
             /\ ID_COUNTER' = ID_COUNTER
             /\ memory'[COUNTER_MEMORY] = memory[COUNTER_MEMORY]
             /\ last'.id[1] \in DOMAIN Entries(memory[STORAGE_MEMORY])
             /\ DOMAIN Entries(memory'[STORAGE_MEMORY]) =
                   DOMAIN Entries(memory[STORAGE_MEMORY]) \ {last'.id[1]}
             /\ \A k \in DOMAIN Entries(memory[STORAGE_MEMORY]) \ {last'.id[1]} :
                   Entries(memory'[STORAGE_MEMORY])[k] = Entries(memory[STORAGE_MEMORY])[k]
      ]_vars

\* a delete that leaves another record in the map
C14_Witness ==
    /\ LastIs("delete", "Ok")
    /\ DOMAIN STORAGE # {}
    /\ deleted # {}

\* C15: a successful add advances the counter by exactly 1 and adds exactly
\* one key, which was not in the map before, leaving the records already
\* there untouched; a key enters the map only through add_sensor_data and
\* leaves it only through delete_sensor_data.
C15_CreateEffect ==
    [][/\ (last'.op = "add" /\ last'.kind = "Ok") =>
             /\ ID_COUNTER' = ID_COUNTER + 1
             /\ last'.id[1] \notin DOMAIN Entries(memory[STORAGE_MEMORY])
             /\ DOMAIN Entries(memory'[STORAGE_MEMORY]) =
                   DOMAIN Entries(memory[STORAGE_MEMORY]) \cup {last'.id[1]}
             /\ \A k \in DOMAIN Entries(memory[STORAGE_MEMORY]) :
                   Entries(memory'[STORAGE_MEMORY])[k] = Entries(memory[STORAGE_MEMORY])[k]
       /\ ~(DOMAIN Entries(memory'[STORAGE_MEMORY]) \subseteq DOMAIN Entries(memory[STORAGE_MEMORY]))
             => (last'.op = "add" /\ last'.kind = "Ok")
       /\ ~(DOMAIN Entries(memory[STORAGE_MEMORY]) \subseteq DOMAIN Entries(memory'[STORAGE_MEMORY]))
             => (last'.op = "delete" /\ last'.kind = "Ok")
      ]_vars

\* an add next to a record that was updated before
C15_Witness ==
    /\ LastIs("add", "Ok")
    /\ Cardinality(DOMAIN STORAGE) = 2
    /\ \E k \in DOMAIN STORAGE : STORAGE[k].updated_at # <<>>

\* C16: every key of the map is an id that add_sensor_data issued earlier,
\* hence below the counter, and the record stored under a key carries that
\* key as its id.
C16_KeyIdentity ==
    \A stored \in {STORAGE} :
        \A k \in DOMAIN stored :
            /\ k \in Issued
            /\ k < ID_COUNTER
            /\ stored[k].id = k

\* two records in the map, one of them updated, the other added after it
C16_Witness ==
    /\ DOMAIN STORAGE = {0, 1}
    /\ STORAGE[0].updated_at # <<>>
    /\ LastIs("update", "Ok")

\* C17: for every payload that passes the validator, whatever the length of
\* its device_id, add_sensor_data returns the created record and
\* update_sensor_data on an existing id returns the updated record; a call
\* ends in Ok, InvalidInput or NotFound and never aborts.
C17_Totality ==
    last.op \in {"add", "get", "update", "delete"} =>
        last.kind \in {"Ok", "InvalidInput", "NotFound"}

\* C19: current_value + 1 never wraps around: also with the counter at the
\* largest value of its unsigned type, an add leaves the counter above every
\* id issued so far, and no add returns an id that was issued before.
C19_NoWrap ==
    /\ \A i \in DOMAIN issued : issued[i] < ID_COUNTER
    /\ \A i, j \in DOMAIN issued : i < j => issued[i] # issued[j]

\* every id below the counter has its record in the map or was deleted
NothingConsumedUnstored ==
    \A k \in 0..(ID_COUNTER - 1) :
        k \in DOMAIN Entries(memory[STORAGE_MEMORY]) \/ k \in deleted

\* the frame has read the counter
HasRead(f) == f.pc \in {"set", "insert"}

\* C18: with calls admitted one at a time and run to completion, no two adds
\* observe the same pre-increment counter value (the value an add in progress
\* has read is the counter's value until that add writes it, it is the id the
\* add draws, and it differs from every id issued and from the value read by
\* any other add in progress); and every step that is not the continuation of
\* an add in progress (another call, its admission included) happens with no
\* add between its read and its return, and in a state where every id consumed
\* from the counter has its record in the map (or was deleted since).
C18_NoSharedCounterValue ==
    /\ [](/\ \A i, j \in DOMAIN issued : i < j => issued[i] # issued[j]
          /\ \A i \in DOMAIN flight :
                /\ flight[i].pc = "set" => flight[i].current_value = <<ID_COUNTER>>
                /\ flight[i].pc = "insert" =>
                      /\ flight[i].id = flight[i].current_value
                      /\ ID_COUNTER = NextValue(flight[i].current_value[1])
                /\ HasRead(flight[i]) =>
                      /\ \A k \in DOMAIN issued : issued[k] # flight[i].current_value[1]
                      /\ \A j \in DOMAIN flight :
                            (j # i /\ HasRead(flight[j])) =>
                                flight[j].current_value # flight[i].current_value)
    /\ [][(flight' = flight \/ Len(flight') > Len(flight)) =>
              /\ \A i \in DOMAIN flight : ~HasRead(flight[i])
              /\ NothingConsumedUnstored]_vars

\* an add has consumed an id whose record is not yet in the map, after an
\* earlier add has completed
C18_Witness ==
    /\ Len(issued) >= 1
    /\ \E i \in DOMAIN flight :
          /\ flight[i].pc = "insert"
          /\ flight[i].id[1] \notin DOMAIN Entries(memory[STORAGE_MEMORY])

====
